---------------------------- MODULE Spec2Model ----------------------------
(***************************************************************************)
(* A model of blum_filter.py: the BloomFilter class (a bit array written   *)
(* through num_hashes seeded MurmurHash3 indices) and the batch classifier  *)
(* check_password_uniqueness built on it.                                   *)
(*                                                                         *)
(* Strings are modelled as the sequences of their UTF-8 bytes, which is     *)
(* what mmh3.hash digests.  A 32-bit word is a pair <<hi, lo>> of 16-bit    *)
(* halves, so that no intermediate value leaves the range of TLC's          *)
(* integers.                                                                *)
(***************************************************************************)
EXTENDS Integers, Sequences, FiniteSets, TLC

(***************************************************************************)
(* Bounds of the model.                                                     *)
(***************************************************************************)
MaxSize == 3
MaxHashes == 2
MaxBatch == 2

\* the longest list a concurrent caller passes
ConcBatch == 1

(***************************************************************************)
(* 32-bit arithmetic on <<hi, lo>> words.                                   *)
(***************************************************************************)
RECURSIVE XorBits(_, _, _)
XorBits(a, b, n) ==
    IF n = 0 THEN 0
    ELSE (((a % 2) + (b % 2)) % 2) + 2 * XorBits(a \div 2, b \div 2, n - 1)

Xor32(a, b) == << XorBits(a[1], b[1], 16), XorBits(a[2], b[2], 16) >>

\* the low 16 bits of x * y, for 16-bit x and y
MulLow16(x, y) ==
    ((x * (y % 256)) + (((x * (y \div 256)) % 256) * 256)) % 65536

\* (a * b) mod 2^32
Mul32(a, b) ==
    LET t0 == a[2] * (b[2] % 256)
        t1 == a[2] * (b[2] \div 256)
        low == t0 + ((t1 % 256) * 256)
        carry == (t1 \div 256) + (low \div 65536)
    IN  << (carry + MulLow16(a[1], b[2]) + MulLow16(a[2], b[1])) % 65536,
           low % 65536 >>

\* (a + b) mod 2^32
Add32(a, b) ==
    << (a[1] + b[1] + ((a[2] + b[2]) \div 65536)) % 65536,
       (a[2] + b[2]) % 65536 >>

\* rotate left by r, 0 < r < 16
Rotl32(a, r) ==
    LET p == 2 ^ r
        q == 2 ^ (16 - r)
    IN  << ((a[1] % q) * p) + (a[2] \div q), ((a[2] % q) * p) + (a[1] \div q) >>

\* logical shift right by r, 0 < r <= 16
Shr32(a, r) ==
    LET p == 2 ^ r
        q == 2 ^ (16 - r)
    IN  << a[1] \div p, (a[2] \div p) + ((a[1] % p) * q) >>

\* the word as Python's signed 32-bit integer
Signed32(a) ==
    IF a[1] >= 32768 THEN (a[1] - 65536) * 65536 + a[2]
    ELSE a[1] * 65536 + a[2]

(***************************************************************************)
(* mmh3.hash(key, seed): MurmurHash3_x86_32 of the key's bytes, signed.     *)
(***************************************************************************)
MixK(k) ==
    Mul32(Rotl32(Mul32(k, <<52382, 11601>>), 15), <<7047, 13715>>)

\* the little-endian word of bytes i .. i+3 of key
Block(key, i) ==
    << key[i + 3] * 256 + key[i + 2], key[i + 1] * 256 + key[i] >>

RECURSIVE Body(_, _, _)
Body(key, i, h) ==
    IF i + 3 > Len(key) THEN h
    ELSE Body(key, i + 4,
              Add32(Mul32(Rotl32(Xor32(h, MixK(Block(key, i))), 13), <<0, 5>>),
                    <<58964, 27492>>))

TailMix(key, h) ==
    LET n == Len(key)
        r == n % 4
        base == n - r
        k == << IF r >= 3 THEN key[base + 3] ELSE 0,
                (IF r >= 2 THEN key[base + 2] * 256 ELSE 0)
                  + (IF r >= 1 THEN key[base + 1] ELSE 0) >>
    IN  IF r = 0 THEN h ELSE Xor32(h, MixK(k))

Fmix32(h) ==
    LET h1 == Xor32(h, Shr32(h, 16))
        h2 == Mul32(h1, <<34283, 51819>>)
        h3 == Xor32(h2, Shr32(h2, 13))
        h4 == Mul32(h3, <<49842, 44597>>)
    IN  Xor32(h4, Shr32(h4, 16))

mmh3_hash(key, seed) ==
    Signed32(Fmix32(Xor32(TailMix(key, Body(key, 1, <<0, seed>>)),
                          <<0, Len(key)>>)))

(***************************************************************************)
(* Values.  A str is [kind |-> "str", val |-> its bytes]; None and a list    *)
(* are the non-str values a caller can put into the passwords list.         *)
(***************************************************************************)
Str(bytes) == [kind |-> "str", val |-> bytes]

None == [kind |-> "NoneType", val |-> <<>>]

AList == [kind |-> "list", val |-> <<>>]

\* "a" and "guest": the items given to add and check
Items == { <<97>>, <<103, 117, 101, 115, 116>> }

\* "" and " "
Blanks == { <<>>, <<32>> }

\* the filter of lines 84-92: BloomFilter(size=1000, num_hashes=3)
MainSize == 1000

MainHashes == 3

\* ["password123", "admin123", "qwerty123"]
existing_passwords ==
    << << 112, 97, 115, 115, 119, 111, 114, 100, 49, 50, 51 >>,
       << 97, 100, 109, 105, 110, 49, 50, 51 >>,
       << 113, 119, 101, 114, 116, 121, 49, 50, 51 >> >>

\* ["password123", "newpassword", "admin123", "guest"]
new_passwords_to_check ==
    << Str(<< 112, 97, 115, 115, 119, 111, 114, 100, 49, 50, 51 >>),
       Str(<< 110, 101, 119, 112, 97, 115, 115, 119, 111, 114, 100 >>),
       Str(<< 97, 100, 109, 105, 110, 49, 50, 51 >>),
       Str(<< 103, 117, 101, 115, 116 >>) >>

Range(q) == { q[i] : i \in 1 .. Len(q) }

MainStrings ==
    Range(existing_passwords) \cup { c.val : c \in Range(new_passwords_to_check) }

\* the lists of as many candidates as new_passwords_to_check, drawn from it
MainBatches ==
    [ 1 .. Len(new_passwords_to_check) -> Range(new_passwords_to_check) ]

Candidates == { Str(b) : b \in Items \cup Blanks } \cup { None, AList }

RECURSIVE SeqsUpTo(_, _)
SeqsUpTo(S, n) ==
    IF n = 0 THEN { <<>> }
    ELSE LET shorter == SeqsUpTo(S, n - 1)
         IN  shorter \cup { Append(q, e) : q \in shorter, e \in S }

Batches == SeqsUpTo(Candidates, MaxBatch)

\* the statuses written at lines 73, 75 and 77
Invalid == "invalid"

AlreadyUsed == "already used"

Unique == "unique"

(***************************************************************************)
(* Python semantics used by the classifier.                                 *)
(***************************************************************************)
\* the bytes str.strip() removes
IsSpace(b) == b \in ((9 .. 13) \cup (28 .. 32))

RECURSIVE LStrip(_)
LStrip(s) ==
    IF s # <<>> /\ IsSpace(Head(s)) THEN LStrip(Tail(s)) ELSE s

RECURSIVE RStrip(_)
RStrip(s) ==
    IF s # <<>> /\ IsSpace(s[Len(s)]) THEN RStrip(SubSeq(s, 1, Len(s) - 1))
    ELSE s

Strip(s) == RStrip(LStrip(s))

\* a dict key must be hashable: a list is not
Hashable(c) == c.kind # "list"

\* a dict is the sequence of its items in insertion order
Keys(d) == { d[i].key : i \in 1 .. Len(d) }

DictGet(d, k) == d[CHOOSE i \in 1 .. Len(d) : d[i].key = k].value

\* mutant of DictSet: an existing key keeps its first value (dict.setdefault)
DictSetDefault(d, k, v) ==
    IF k \in Keys(d) THEN d ELSE Append(d, [key |-> k, value |-> v])

\* d[k] = v: an existing key keeps its place and takes the new value
DictSet(d, k, v) ==
    IF k \in Keys(d)
    THEN [i \in 1 .. Len(d) |-> IF d[i].key = k THEN [key |-> k, value |-> v]
                                ELSE d[i]]
    ELSE Append(d, [key |-> k, value |-> v])

VARIABLES
    obj,         \* what BloomFilter(size, num_hashes) produced
    size,        \* self.size
    num_hashes,  \* self.num_hashes
    bit_array,   \* self.bit_array, indexed from 0
    added,       \* history: the items add has been completed for
    call,        \* the last call made on the filter and how it ended
    pc,          \* position of check_password_uniqueness
    passwords,   \* its argument
    idx,         \* 1-based position of its for loop
    results,     \* its results dict
    outcomes,    \* history: what each loop iteration did
    threads      \* check_password_uniqueness as run by concurrent callers

vars == << obj, size, num_hashes, bit_array, added, call, pc, passwords, idx,
           results, outcomes, threads >>

filter == << obj, size, num_hashes, bit_array, added >>

run == << pc, passwords, idx, results, outcomes >>

\* two callers sharing one filter
Threads == { "t1", "t2" }

IdleThread ==
    [pc |-> "idle", passwords |-> <<>>, idx |-> 1, results |-> <<>>,
     outcomes |-> <<>>]

(***************************************************************************)
(* BloomFilter                                                             *)
(***************************************************************************)
\* mmh3.hash of every str of the model under every seed a filter can use
SeedBound == IF MaxHashes > MainHashes THEN MaxHashes ELSE MainHashes

HashTable ==
    [b \in Items \cup Blanks \cup MainStrings |->
        [seed \in 0 .. SeedBound - 1 |-> mmh3_hash(b, seed)]]

\* x % 0 at line 34, reached when the list comprehension runs at least once
HashesRaises == num_hashes > 0 /\ size = 0

\* mutant of hashes: the remainder takes the sign of the hash (C's %)
hashesTruncating(item) ==
    [n \in 1 .. num_hashes |->
        IF HashTable[item][n - 1] < 0
        THEN 0 - ((0 - HashTable[item][n - 1]) % size)
        ELSE HashTable[item][n - 1] % size]

\* _hashes: [mmh3.hash(item, seed) % self.size for seed in range(self.num_hashes)]
hashes(item) ==
    [n \in 1 .. num_hashes |-> HashTable[item][n - 1] % size]

\* mutant of SetBits: the array is rebuilt from the indices of this call alone
RECURSIVE SetBitsFresh(_, _)
SetBitsFresh(bits, hs) ==
    IF hs = <<>> THEN [i \in DOMAIN bits |-> 0]
    ELSE [SetBitsFresh(bits, Tail(hs)) EXCEPT ![Head(hs)] = 1]

\* the loop of add over a list of indices
RECURSIVE SetBits(_, _)
SetBits(bits, hs) ==
    IF hs = <<>> THEN bits
    ELSE SetBits([bits EXCEPT ![Head(hs)] = 1], Tail(hs))

\* mutant of add: only the first index is written
addFirstIndexOnly(item) ==
    IF hashes(item) = <<>> THEN bit_array
    ELSE SetBits(bit_array, << Head(hashes(item)) >>)

\* mutant of add: each index is flipped instead of set
RECURSIVE FlipBits(_, _)
FlipBits(bits, hs) ==
    IF hs = <<>> THEN bits
    ELSE FlipBits([bits EXCEPT ![Head(hs)] = 1 - @], Tail(hs))

addFlipping(item) == FlipBits(bit_array, hashes(item))

\* self.bit_array after add(item)
add(item) == SetBits(bit_array, hashes(item))

\* mutant of AllSet: any(...) in place of all(...)
RECURSIVE AnySet(_, _)
AnySet(bits, hs) ==
    IF hs = <<>> THEN FALSE
    ELSE IF bits[Head(hs)] = 1 THEN TRUE
    ELSE AnySet(bits, Tail(hs))

\* all(...) over a generator: stops at the first bit that is 0
RECURSIVE AllSet(_, _)
AllSet(bits, hs) ==
    IF hs = <<>> THEN TRUE
    ELSE IF bits[Head(hs)] = 0 THEN FALSE
    ELSE AllSet(bits, Tail(hs))

check(item) == AllSet(bit_array, hashes(item))

NoCall == [op |-> "", item |-> <<>>, exc |-> "", val |-> "None", again |-> FALSE]

Returned(op, item, val) ==
    [op |-> op, item |-> item, exc |-> "", val |-> val,
     again |-> call.op = op /\ call.item = item /\ call.exc = ""]

Raised(op, item, exc) ==
    [op |-> op, item |-> item, exc |-> exc, val |-> "None", again |-> FALSE]

NoRun ==
    /\ pc' = "idle"
    /\ passwords' = <<>>
    /\ idx' = 1
    /\ results' = <<>>
    /\ outcomes' = <<>>

Init ==
    /\ obj = "none"
    /\ size = 0
    /\ num_hashes = 0
    /\ bit_array = <<>>
    /\ added = {}
    /\ call = NoCall
    /\ pc = "idle"
    /\ passwords = <<>>
    /\ idx = 1
    /\ results = <<>>
    /\ outcomes = <<>>
    /\ threads = [t \in Threads |-> IdleThread]

\* BloomFilter(s, k): bitarray(s) raises ValueError for a negative length
Construct(s, k) ==
    /\ obj = "none"
    /\ size' = s
    /\ num_hashes' = k
    /\ IF s < 0
       THEN /\ obj' = "ValueError"
            /\ bit_array' = <<>>
       ELSE /\ obj' = "BloomFilter"
            /\ bit_array' = [i \in 0 .. s - 1 |-> 0]
    /\ UNCHANGED << added, call, run, threads >>

Add(x) ==
    /\ obj = "BloomFilter"
    /\ pc # "loop"
    /\ IF HashesRaises
       THEN /\ call' = Raised("add", x, "ZeroDivisionError")
            /\ UNCHANGED << bit_array, added >>
       ELSE /\ bit_array' = add(x)
            /\ added' = added \cup {x}
            /\ call' = Returned("add", x, "None")
    /\ NoRun
    /\ UNCHANGED << obj, size, num_hashes, threads >>

\* mutant of Check: a query that also records the item it was asked about
CheckAndAdd(x) ==
    /\ obj = "BloomFilter"
    /\ pc # "loop"
    /\ call' = IF HashesRaises THEN Raised("check", x, "ZeroDivisionError")
               ELSE Returned("check", x, IF check(x) THEN "True" ELSE "False")
    /\ bit_array' = IF HashesRaises THEN bit_array ELSE add(x)
    /\ NoRun
    /\ UNCHANGED << obj, size, num_hashes, added, threads >>

Check(x) ==
    /\ obj = "BloomFilter"
    /\ pc # "loop"
    /\ call' = IF HashesRaises THEN Raised("check", x, "ZeroDivisionError")
               ELSE Returned("check", x, IF check(x) THEN "True" ELSE "False")
    /\ NoRun
    /\ UNCHANGED << filter, threads >>

(***************************************************************************)
(* check_password_uniqueness                                               *)
(***************************************************************************)
\* line 72: not isinstance(password, str) or not password.strip()
IsInvalid(c) == c.kind # "str" \/ Strip(c.val) = <<>>

\* mutant of Status: the elif branch of line 74 is missing
StatusSkipsCheck(c) == IF IsInvalid(c) THEN Invalid ELSE Unique

\* the branch an iteration takes for candidate c
Status(c) ==
    IF IsInvalid(c) THEN Invalid
    ELSE IF check(c.val) THEN AlreadyUsed
    ELSE Unique

\* whether the iteration evaluates bloom_filter.check(password) at line 74
Queries(c) == ~IsInvalid(c)

\* mutant of Adds: line 78 is missing
AddsNever(c) == FALSE

\* whether the iteration calls bloom_filter.add(password) at line 78
Adds(c) == Status(c) = Unique

\* mutant of BitsAfter: add is called for every str, whatever its branch
BitsAfterAnyStr(c) ==
    IF c.kind = "str" /\ ~HashesRaises THEN add(c.val) ELSE bit_array

\* self.bit_array after the iteration for c
BitsAfter(c) == IF Adds(c) THEN add(c.val) ELSE bit_array

\* the exception the iteration for c ends with, "" when it ends normally
StepRaises(c) ==
    IF IsInvalid(c) THEN (IF Hashable(c) THEN "" ELSE "TypeError")
    ELSE IF HashesRaises THEN "ZeroDivisionError"
    ELSE ""

Start(ps) ==
    /\ obj = "BloomFilter"
    /\ pc # "loop"
    /\ pc' = "loop"
    /\ passwords' = ps
    /\ idx' = 1
    /\ results' = <<>>
    /\ outcomes' = <<>>
    /\ call' = [op |-> "check_password_uniqueness", item |-> <<>>, exc |-> "",
                val |-> "None", again |-> pc = "returned" /\ passwords = ps]
    /\ UNCHANGED << filter, threads >>

Iterate ==
    /\ pc = "loop"
    /\ idx <= Len(passwords)
    /\ LET c == passwords[idx]
       IN  IF StepRaises(c) # ""
           THEN /\ pc' = "raised"
                /\ call' = [call EXCEPT !.exc = StepRaises(c)]
                /\ UNCHANGED << bit_array, added, idx, results, outcomes >>
           ELSE /\ results' = DictSet(results, c, Status(c))
                /\ outcomes' = Append(outcomes, [status |-> Status(c),
                                                 queried |-> Queries(c)])
                /\ bit_array' = BitsAfter(c)
                /\ added' = IF Adds(c) THEN added \cup {c.val} ELSE added
                /\ idx' = idx + 1
                /\ UNCHANGED << pc, call >>
    /\ UNCHANGED << obj, size, num_hashes, passwords, threads >>

Return ==
    /\ pc = "loop"
    /\ idx > Len(passwords)
    /\ pc' = "returned"
    /\ call' = [call EXCEPT !.val = "dict"]
    /\ UNCHANGED << filter, passwords, idx, results, outcomes, threads >>

Next ==
    \/ \E s \in -1 .. MaxSize, k \in -1 .. MaxHashes : Construct(s, k)
    \/ \E x \in Items : Add(x)
    \/ \E x \in Items : Check(x)
    \/ \E ps \in Batches : Start(ps)
    \/ Iterate
    \/ Return

Spec == Init /\ [][Next]_vars

(***************************************************************************)
(* Two callers run check_password_uniqueness on one filter at once.  The   *)
(* function takes no lock, so a caller can be suspended between the check   *)
(* of line 74 and the add of line 78.                                       *)
(***************************************************************************)
ConcBatches == SeqsUpTo(Candidates, ConcBatch)

TStart(t, ps) ==
    /\ obj = "BloomFilter"
    /\ threads[t].pc = "idle"
    /\ threads' = [threads EXCEPT ![t] =
                     [pc |-> "test", passwords |-> ps, idx |-> 1,
                      results |-> <<>>, outcomes |-> <<>>]]
    /\ UNCHANGED << filter, call, run >>

\* lines 72-77 for the candidate at idx: the branch is chosen and the status
\* is written; a 'unique' candidate is still to be added
TTest(t) ==
    /\ threads[t].pc = "test"
    /\ threads[t].idx <= Len(threads[t].passwords)
    /\ LET me == threads[t]
           c == me.passwords[me.idx]
       IN  threads' = [threads EXCEPT ![t] =
               IF StepRaises(c) # "" THEN [me EXCEPT !.pc = "raised"]
               ELSE [me EXCEPT
                       !.results = DictSet(me.results, c, Status(c)),
                       !.outcomes = Append(me.outcomes, Status(c)),
                       !.pc = IF Adds(c) THEN "add" ELSE "test",
                       !.idx = IF Adds(c) THEN me.idx ELSE me.idx + 1]]
    /\ UNCHANGED << filter, call, run >>

\* line 78
TAdd(t) ==
    /\ threads[t].pc = "add"
    /\ LET c == threads[t].passwords[threads[t].idx]
       IN  /\ bit_array' = add(c.val)
           /\ added' = added \cup {c.val}
    /\ threads' = [threads EXCEPT ![t].pc = "test", ![t].idx = @ + 1]
    /\ UNCHANGED << obj, size, num_hashes, call, run >>

\* line 79
TReturn(t) ==
    /\ threads[t].pc = "test"
    /\ threads[t].idx > Len(threads[t].passwords)
    /\ threads' = [threads EXCEPT ![t].pc = "returned"]
    /\ UNCHANGED << filter, call, run >>

ConcNext ==
    \/ \E s \in -1 .. MaxSize, k \in -1 .. MaxHashes : Construct(s, k)
    \/ \E t \in Threads, ps \in ConcBatches : TStart(t, ps)
    \/ \E t \in Threads : TTest(t)
    \/ \E t \in Threads : TAdd(t)
    \/ \E t \in Threads : TReturn(t)

ConcSpec == Init /\ [][ConcNext]_vars

(***************************************************************************)
(* The __main__ block: a filter of size 1000 with 3 hashes is loaded with   *)
(* existing_passwords, in order, and then classifies one list.              *)
(***************************************************************************)
MainPreload ==
    /\ call.op \in {"", "add"}
    /\ Cardinality(added) < Len(existing_passwords)
    /\ Add(existing_passwords[Cardinality(added) + 1])

MainCheck(ps) ==
    /\ call.op = "add"
    /\ added = Range(existing_passwords)
    /\ Start(ps)

MainNext ==
    \/ Construct(MainSize, MainHashes)
    \/ MainPreload
    \/ \E ps \in MainBatches : MainCheck(ps)
    \/ Iterate
    \/ Return

MainSpec == Init /\ [][MainNext]_vars

(***************************************************************************)
(* Properties                                                              *)
(***************************************************************************)
\* an iteration of the for loop is about to run
AtIteration == pc = "loop" /\ idx <= Len(passwords)

\* the step taken is an iteration that ended normally
Iterated == AtIteration /\ idx' = idx + 1

SomeBitSet == \E i \in DOMAIN bit_array : bit_array[i] = 1

SomeBitClear == \E i \in DOMAIN bit_array : bit_array[i] = 0

\* the indices of item, from the hash function itself
IndexSet(item) ==
    { mmh3_hash(item, seed) % size : seed \in 0 .. num_hashes - 1 }

\* C1: no false negatives: on a filter with size > 0 and num_hashes > 0,
\* check(x) is True for every x that add(x) was called for, in every later
\* state, whatever add, check and check_password_uniqueness calls follow.
C1_NoFalseNegatives ==
    (obj = "BloomFilter" /\ size > 0 /\ num_hashes > 0)
        => \A x \in added : check(x)

\* both items were added, one of them by a later call, and the filter is not full
C1_Witness ==
    /\ size > 0
    /\ num_hashes > 0
    /\ added = Items
    /\ call.op = "add"
    /\ SomeBitClear

\* C2: a valid candidate that was added before, or earlier in the run, is
\* classified 'already used' by the iteration that meets it, never 'unique'.
C2_SeenNeverUnique ==
    [][ (AtIteration /\ ~IsInvalid(passwords[idx])
            /\ passwords[idx].val \in added /\ << pc, idx >>' # << pc, idx >>)
        => (pc' = "loop" /\ Len(outcomes') = idx
            /\ outcomes'[idx].status = AlreadyUsed) ]_vars

\* the first candidate of a run had been added before the run and was
\* classified 'already used', on a filter that is not full
C2_Witness ==
    /\ pc \in {"loop", "returned"}
    /\ Len(outcomes) >= 1
    /\ outcomes[1].status = AlreadyUsed
    /\ passwords[1].val \in added
    /\ num_hashes > 0
    /\ SomeBitClear

\* C3: constructing a BloomFilter with size <= 0 or num_hashes <= 0 fails:
\* no filter object is produced.
C3_ConstructionGuard ==
    obj = "BloomFilter" => (size > 0 /\ num_hashes > 0)

\* C4: candidates are processed in input order, each iteration seeing the
\* earlier ones: a valid candidate the filter does not contain is classified
\* 'unique' and added, and every later occurrence of a candidate classified
\* 'unique' is classified 'already used'.
C4_SequentialFold ==
    [][ Iterated =>
        /\ (~IsInvalid(passwords[idx]) /\ ~check(passwords[idx].val))
             => /\ outcomes'[idx].status = Unique
                /\ passwords[idx].val \in added'
                /\ IndexSet(passwords[idx].val)
                     \subseteq { i \in DOMAIN bit_array' : bit_array'[i] = 1 }
        /\ \A i, j \in 1 .. Len(outcomes') :
             (i < j /\ passwords[i] = passwords[j]
                    /\ outcomes'[i].status = Unique)
                => outcomes'[j].status = AlreadyUsed ]_vars

\* the batch ["x", "x"] on a filter that did not contain x
C4_Witness ==
    /\ Len(outcomes) = 2
    /\ passwords[1] = passwords[2]
    /\ outcomes[1].status = Unique
    /\ outcomes[2].status = AlreadyUsed

\* C5: an iteration for a candidate that is not a str, or is blank after
\* strip(), records 'invalid' for it and goes on to the next candidate; it
\* never raises.  Stated for a filter with size > 0 and num_hashes > 0.
C5_InvalidAbsorbed ==
    [][ (AtIteration /\ IsInvalid(passwords[idx])
            /\ size > 0 /\ num_hashes > 0
            /\ << pc, idx >>' # << pc, idx >>)
        => (pc' = "loop" /\ idx' = idx + 1
            /\ outcomes'[idx].status = Invalid
            /\ DictGet(results', passwords[idx]) = Invalid) ]_vars

\* C6: during a run the bit array changes only in an iteration that
\* classifies 'unique'; an 'invalid' iteration neither queries nor changes
\* the filter, and an 'already used' iteration leaves the bit array as it is.
C6_FrameOfIteration ==
    [][ Iterated =>
        /\ bit_array' # bit_array => outcomes'[idx].status = Unique
        /\ outcomes'[idx].status = Invalid
             => (~outcomes'[idx].queried /\ UNCHANGED filter)
        /\ outcomes'[idx].status = AlreadyUsed => UNCHANGED filter ]_vars

\* a run on a filter with bits set has recorded an 'invalid' iteration and
\* an iteration that queried the filter
C6_Witness ==
    /\ SomeBitSet
    /\ \E i, j \in 1 .. Len(outcomes) :
         /\ outcomes[i].status = Invalid
         /\ outcomes[j].status \in {AlreadyUsed, Unique}
    /\ added # {}

\* C7: once the filter is constructed, no step clears a bit that is 1 or
\* changes size, num_hashes or the length of the bit array.
C7_Monotonic ==
    [][ obj = "BloomFilter" =>
        /\ obj' = obj
        /\ size' = size
        /\ num_hashes' = num_hashes
        /\ DOMAIN bit_array' = DOMAIN bit_array
        /\ \A i \in DOMAIN bit_array : bit_array[i] = 1 => bit_array'[i] = 1
      ]_vars

\* a second item has been added to a filter that already had bits set,
\* and a bit is still clear
C7_Witness ==
    /\ Cardinality(added) = 2
    /\ SomeBitSet
    /\ SomeBitClear
    /\ call.op = "check"

\* C8: add is idempotent: add(x) called right after add(x) leaves the bit
\* array exactly as the first call left it.
C8_AddIdempotent ==
    [][ (call'.op = "add" /\ call'.again) => bit_array' = bit_array ]_vars

\* add(x) has just been called twice in a row on a filter with bits to set
C8_Witness ==
    /\ call.op = "add"
    /\ call.again
    /\ SomeBitSet
    /\ SomeBitClear

\* C9: check(item) returns True if and only if the bit at
\* mmh3.hash(item, seed) % size is 1 for every seed in 0 .. num_hashes-1.
C9_CheckIffAllSet ==
    (call.op = "check" /\ call.exc = "")
        => (call.val = "True"
              <=> \A i \in IndexSet(call.item) : bit_array[i] = 1)

\* check returned False for an item with one index set and another clear
C9_Witness ==
    /\ call.op = "check"
    /\ call.exc = ""
    /\ call.val = "False"
    /\ \E i \in IndexSet(call.item) : bit_array[i] = 1
    /\ \E i \in IndexSet(call.item) : bit_array[i] = 0

\* the last position of candidate c in the input
LastIndex(c) ==
    CHOOSE i \in 1 .. Len(passwords) :
        /\ passwords[i] = c
        /\ \A j \in i + 1 .. Len(passwords) : passwords[j] # c

\* C10: the returned dict is keyed by candidate value: its keys are the
\* distinct candidates of the input, and each key holds the status computed
\* for the candidate's last occurrence.
C10_ResultKeyedByValue ==
    pc = "returned" =>
        /\ Keys(results) = { passwords[i] : i \in 1 .. Len(passwords) }
        /\ Len(results) = Cardinality(Keys(results))
        /\ \A i \in 1 .. Len(passwords) :
             DictGet(results, passwords[i])
                = outcomes[LastIndex(passwords[i])].status

\* a candidate occurred twice with different statuses and the dict holds
\* the later one
C10_Witness ==
    /\ pc = "returned"
    /\ Len(passwords) = 2
    /\ passwords[1] = passwords[2]
    /\ outcomes[1].status # outcomes[2].status
    /\ Len(results) = 1
    /\ results[1].value = outcomes[2].status

\* C11 as stated: within one run, once a status has been written for a
\* candidate key, that key stays in the dict with the same status.
C11_EntryNeverMutated ==
    [][ pc = "loop" =>
        \A k \in Keys(results) :
            k \in Keys(results') /\ DictGet(results', k) = DictGet(results, k)
      ]_vars

\* C11 as amended: within one run an entry is never removed, and its status
\* changes in one case only: an entry written 'unique' is overwritten with
\* 'already used' when the same candidate is processed again.
C11_EntryMutatedOnlyOnRepeat ==
    [][ pc = "loop" =>
        \A k \in Keys(results) :
            /\ k \in Keys(results')
            /\ IF Iterated /\ passwords[idx] = k /\ DictGet(results, k) = Unique
               THEN DictGet(results', k) = AlreadyUsed
               ELSE DictGet(results', k) = DictGet(results, k)
      ]_vars

\* the entry of a repeated candidate was written 'unique' and now reads
\* 'already used'
C11_Witness ==
    /\ pc = "loop"
    /\ idx = 3
    /\ passwords[1] = passwords[2]
    /\ outcomes[1].status = Unique
    /\ DictGet(results, passwords[1]) = AlreadyUsed

\* C12: check(x) does not modify the filter; a check(x) that directly follows
\* a check(x) returns what the first returned; and the answer is fixed by
\* size, num_hashes, the bit array and the item alone, so that two filters
\* equal in these three answer every check alike.
C12_CheckDeterministic ==
    [][ (call'.op = "check" /\ call' # call) =>
        /\ UNCHANGED filter
        /\ call'.again => (call'.exc = call.exc /\ call'.val = call.val)
        /\ call'.exc = "" =>
             (call'.val = "True"
                <=> IndexSet(call'.item)
                      \subseteq { i \in DOMAIN bit_array : bit_array[i] = 1 })
      ]_vars

\* check(x) was called twice in a row and answered False both times on a
\* filter that holds another item
C12_Witness ==
    /\ call.op = "check"
    /\ call.again
    /\ call.val = "False"
    /\ added # {}
    /\ SomeBitSet

\* C13: the filter of size 1000 with 3 hashes, loaded with "password123",
\* "admin123" and "qwerty123", classifies ["password123", "newpassword",
\* "admin123", "guest"] as already used, unique, already used, unique.
C13_EndToEnd ==
    (pc = "returned" /\ passwords = new_passwords_to_check) =>
        /\ [i \in 1 .. Len(outcomes) |-> outcomes[i].status]
             = << AlreadyUsed, Unique, AlreadyUsed, Unique >>
        /\ results = [i \in 1 .. 4 |->
                        [key |-> new_passwords_to_check[i],
                         value |-> IF i \in {1, 3} THEN AlreadyUsed ELSE Unique]]

\* the run of the __main__ block has returned
C13_Witness ==
    /\ pc = "returned"
    /\ passwords = new_passwords_to_check
    /\ size = MainSize
    /\ num_hashes = MainHashes
    /\ Range(existing_passwords) \subseteq added

\* C15: on a filter with size > 0 and num_hashes > 0, _hashes(item) is a list
\* of exactly num_hashes indices, each in [0, size), also where the 32-bit
\* hash is negative; add and check index inside the bit array and do not
\* raise, for any str.
C15_IndicesInRange ==
    (obj = "BloomFilter" /\ size > 0 /\ num_hashes > 0) =>
        /\ \A x \in Items \cup Blanks :
             /\ Len(hashes(x)) = num_hashes
             /\ \A n \in 1 .. num_hashes :
                  /\ hashes(x)[n] \in DOMAIN bit_array
                  /\ hashes(x)[n] >= 0
                  /\ hashes(x)[n] < size
        /\ call.exc # "ZeroDivisionError"
        /\ call.op \in {"add", "check"} => call.exc = ""

\* add returned for an item whose hash under seed 0 is negative
C15_Witness ==
    /\ call.op = "add"
    /\ call.exc = ""
    /\ size > 1
    /\ num_hashes > 0
    /\ mmh3_hash(call.item, 0) < 0
    /\ bit_array[mmh3_hash(call.item, 0) % size] = 1

\* C16 as stated: when two runs on one filter interleave, they never both
\* classify the same candidate 'unique'.
C16_CheckThenAddAtomic ==
    \A t, u \in Threads :
        t # u =>
            \A i \in 1 .. Len(threads[t].outcomes),
               j \in 1 .. Len(threads[u].outcomes) :
                ~ /\ threads[t].passwords[i] = threads[u].passwords[j]
                  /\ threads[t].outcomes[i] = Unique
                  /\ threads[u].outcomes[j] = Unique

\* C16 as amended: the check-then-add is not atomic, and what holds under
\* every interleaving is that once an add(c) has completed, every later test
\* of c by any run records 'already used'.
C16_TestAfterAddSeesIt ==
    [][ \A t \in Threads :
          ( /\ threads[t].pc = "test"
            /\ threads[t].idx <= Len(threads[t].passwords)
            /\ threads'[t] # threads[t]
            /\ ~IsInvalid(threads[t].passwords[threads[t].idx])
            /\ threads[t].passwords[threads[t].idx].val \in added )
          => /\ threads'[t].pc = "test"
             /\ threads'[t].idx = threads[t].idx + 1
             /\ threads'[t].outcomes[threads[t].idx] = AlreadyUsed
      ]_vars

\* one run classified a candidate 'unique' and added it, and the other run
\* then classified the same candidate 'already used', on a filter not full
C16_Witness ==
    /\ num_hashes > 0
    /\ SomeBitClear
    /\ \E t, u \in Threads :
         /\ t # u
         /\ threads[t].pc = "returned"
         /\ threads[t].outcomes = << Unique >>
         /\ threads[u].passwords = threads[t].passwords
         /\ threads[u].outcomes = << AlreadyUsed >>

SetBitCount == Cardinality({ i \in DOMAIN bit_array : bit_array[i] = 1 })

\* C17: add(item) sets the bits at the num_hashes indices of item to 1 and
\* leaves every other bit as it was, so the number of set bits grows by at
\* most num_hashes.
C17_AddFrame ==
    [][ (call'.op = "add" /\ call'.exc = "") =>
        /\ DOMAIN bit_array' = DOMAIN bit_array
        /\ \A i \in DOMAIN bit_array :
             bit_array'[i] = IF i \in IndexSet(call'.item) THEN 1
                             ELSE bit_array[i]
        /\ SetBitCount' - SetBitCount <= num_hashes
        /\ SetBitCount' >= SetBitCount
      ]_vars

\* C17 on the filters with num_hashes >= 0: there add sets the bits at the
\* indices of item, leaves the others, and adds at most num_hashes set bits.
C17_AddFrameFromZeroHashes ==
    [][ (call'.op = "add" /\ call'.exc = "" /\ num_hashes >= 0) =>
        /\ DOMAIN bit_array' = DOMAIN bit_array
        /\ \A i \in DOMAIN bit_array :
             bit_array'[i] = IF i \in IndexSet(call'.item) THEN 1
                             ELSE bit_array[i]
        /\ SetBitCount' - SetBitCount <= num_hashes
        /\ SetBitCount' >= SetBitCount
      ]_vars

\* every valid candidate of the input passes check
AllValidContained ==
    \A i \in 1 .. Len(passwords) :
        ~IsInvalid(passwords[i]) => check(passwords[i].val)

\* the run in progress repeats, on the filter it left, the run that has
\* just returned
SecondRun == call.op = "check_password_uniqueness" /\ call.again

\* C18: when check_password_uniqueness returns, check(c) is True for every
\* valid candidate c of its input; and a second run over the same input on
\* the resulting filter classifies no candidate 'unique' and changes no bit.
C18_RunPostcondition ==
    [][ /\ pc' = "returned" => AllValidContained'
        /\ SecondRun' =>
             /\ \A i \in 1 .. Len(outcomes') : outcomes'[i].status # Unique
             /\ pc' # "raised"
        /\ (SecondRun /\ SecondRun') => bit_array' = bit_array
      ]_vars

\* a second run over an input with a valid candidate has returned, on a
\* filter with hashes that is not full
C18_Witness ==
    /\ SecondRun
    /\ pc = "returned"
    /\ num_hashes > 0
    /\ SomeBitClear
    /\ \E i \in 1 .. Len(passwords) :
         ~IsInvalid(passwords[i]) /\ outcomes[i].status = AlreadyUsed

\* C19: on a filter built with num_hashes = 0, _hashes returns no indices:
\* check is True for every item although no bit is set, and
\* check_password_uniqueness classifies every valid candidate 'already
\* used', none 'unique', and sets no bit.
C19_ZeroHashes ==
    (obj = "BloomFilter" /\ num_hashes = 0) =>
        /\ \A x \in Items \cup Blanks : hashes(x) = <<>> /\ check(x)
        /\ ~SomeBitSet
        /\ call.op = "check" => call.val = "True"
        /\ \A i \in 1 .. Len(outcomes) :
             /\ outcomes[i].status # Unique
             /\ ~IsInvalid(passwords[i]) => outcomes[i].status = AlreadyUsed

\* a run on a filter with num_hashes = 0 and a bit array of zeros has
\* returned after classifying a valid candidate
C19_Witness ==
    /\ obj = "BloomFilter"
    /\ num_hashes = 0
    /\ size > 0
    /\ pc = "returned"
    /\ \E i \in 1 .. Len(outcomes) : outcomes[i].status = AlreadyUsed
=============================================================================
